---- MODULE Spec2Model ----
(***************************************************************************)
(* Model of the ID-card text rendering code:                               *)
(*   src/backend/bengali_text_helper.py  (font registration, PIL raster)   *)
(*   src/backend/id_card_generator.py    (canvas drawing, card pages)      *)
(*                                                                         *)
(* Conventions.                                                            *)
(*  - A Python string is a sequence of one-character strings.              *)
(*  - An optional argument is None == <<>> or Some(v) == <<v>>.            *)
(*  - Lengths on the PDF canvas are integers in millimetres; a horizontal  *)
(*    draw position is kept DOUBLED (field x2), because the code halves    *)
(*    a difference with true division.                                     *)
(*  - A font file is "ok", "corrupt" (exists, cannot be opened) or         *)
(*    "missing".                                                           *)
(***************************************************************************)
EXTENDS Integers, Sequences, FiniteSets, TLC

VARIABLES
    regFile,            \* state of fonts/NotoSansBengali-Regular.ttf
    boldFile,           \* state of fonts/NotoSansBengali-Bold.ttf
    FONTS_REGISTERED,   \* bengali_text_helper._FONTS_REGISTERED
    registry,           \* pdfmetrics.getRegisteredFontNames()
    handed,             \* per font name: calls of pdfmetrics.registerFont so far
    canvas,             \* the caller's canvas: [fontname, fill]
    tempFiles,          \* temp files that exist on disk
    tempSeq,            \* number of temp files created so far
    args,               \* the arguments the caller passes (fixed per run)
    call,               \* name of the last function called
    ret                 \* what the last call returned, raised and drew

vars == <<regFile, boldFile, FONTS_REGISTERED, registry, handed, canvas,
          tempFiles, tempSeq, args, call, ret>>

\* ---------------------------------------------------------------- bounds

MaxTextLen == 2
MaxParaLen == 4
MaxWidth == 8
MaxHanded == 3
MaxTemp == 4
MaxStudents == 2

\* ------------------------------------------------------------ basic values

None == <<>>
Some(v) == <<v>>
Truthy(opt) == opt # None /\ opt # Some(0)

FileStates == {"ok", "corrupt", "missing"}
Chars == {"a", "b", " "}
TextsUpTo(n) == UNION {[1..k -> Chars] : k \in 0..n}
FontSizes == {8, 12}

\* os.path.exists(path)
exists(file) == file # "missing"

Max(a, b) == IF a >= b THEN a ELSE b

\* -------------------------------------------------- PIL text measurement

\* Advance of one character at the loaded face (abstract pixels).
CharWidth(ch) == IF ch = " " THEN 1 ELSE IF ch = "b" THEN 3 ELSE 2

RECURSIVE TextWidth(_)
\* bbox[2] - bbox[0] of textbbox((0, 0), line): monotone under appending.
TextWidth(s) == IF s = <<>> THEN 0 ELSE CharWidth(Head(s)) + TextWidth(Tail(s))

\* Bounding boxes textbbox may report for a single run: (left, top, right,
\* bottom), with zero and negative extents and non-zero offsets.
BBoxes == {<<l, t, l + w, t + h>> : l \in {-2, 0, 1}, t \in {-1, 0},
                                    w \in {-25, -3, 0, 4}, h \in {-12, -2, 0, 3}}

\* ------------------------------------------- render_bengali_text_to_image

\* Font selection of render_bengali_text_to_image: the path it opens, or
\* the exception it raises.
SelectFontText(bold) ==
    LET font_path == IF bold THEN "bold" ELSE "regular"
        file(p) == IF p = "bold" THEN boldFile ELSE regFile
        chosen == IF ~exists(file(font_path)) THEN "regular" ELSE font_path
    IN IF ~exists(file(font_path)) /\ ~exists(regFile)
          THEN [raised |-> "FileNotFoundError"]
       ELSE IF file(chosen) = "corrupt"
          THEN [raised |-> "RuntimeError"]
       ELSE [raised |-> "none", face |-> chosen]

\* The image built from a measured bounding box.
TextImageNoFloor(text, bbox) ==
    LET text_width == bbox[3] - bbox[1]
        text_height == bbox[4] - bbox[2]
        padding_x == 10
        padding_y == 5
    IN [width |-> text_width + 2 * padding_x,
        height |-> text_height + 2 * padding_y,
        allocated |-> TRUE,
        draws |-> <<[x |-> padding_x - bbox[1], y |-> padding_y - bbox[2],
                     text |-> text]>>]

\* the image with the text drawn at (padding_x, padding_y), the offsets of
\* the bounding box ignored
TextImageNoOffset(text, bbox) ==
    LET text_width == bbox[3] - bbox[1]
        text_height == bbox[4] - bbox[2]
        padding_x == 10
        padding_y == 5
        img_width == Max(text_width + 2 * padding_x, 10)
        img_height == Max(text_height + 2 * padding_y, 10)
    IN [width |-> img_width,
        height |-> img_height,
        allocated |-> TRUE,
        draws |-> <<[x |-> padding_x, y |-> padding_y, text |-> text]>>]

TextImage(text, bbox) ==
    LET text_width == bbox[3] - bbox[1]
        text_height == bbox[4] - bbox[2]
        padding_x == 10
        padding_y == 5
        img_width == Max(text_width + 2 * padding_x, 10)
        img_height == Max(text_height + 2 * padding_y, 10)
    IN [width |-> img_width,
        height |-> img_height,
        allocated |-> TRUE,
        draws |-> <<[x |-> padding_x - bbox[1], y |-> padding_y - bbox[2],
                     text |-> text]>>]

render_bengali_text_to_image ==
    /\ args.kind = "text"
    /\ LET f == SelectFontText(args.bold) IN
       ret' = IF f.raised # "none"
                 THEN [raised |-> f.raised]
                 ELSE [raised |-> "none", font |-> f.face,
                       img |-> TextImage(args.text, args.bbox)]
    /\ call' = "render_bengali_text_to_image"
    /\ UNCHANGED <<regFile, boldFile, FONTS_REGISTERED, registry, handed,
                   canvas, tempFiles, tempSeq, args>>

\* -------------------------------------- render_bengali_paragraph_to_image

\* Font selection of render_bengali_paragraph_to_image.
SelectFontParagraph(bold) ==
    LET file == IF bold THEN boldFile ELSE regFile
    IN IF ~exists(file) THEN [raised |-> "FileNotFoundError"]
       ELSE IF file = "corrupt" THEN [raised |-> "RuntimeError"]
       ELSE [raised |-> "none", face |-> IF bold THEN "bold" ELSE "regular"]

RECURSIVE SplitAcc(_, _, _)
SplitAcc(s, cur, acc) ==
    IF s = <<>> THEN Append(acc, cur)
    ELSE IF Head(s) = " " THEN SplitAcc(Tail(s), <<>>, Append(acc, cur))
    ELSE SplitAcc(Tail(s), Append(cur, Head(s)), acc)

\* text.split(' '): consecutive, leading and trailing spaces give empty words.
split(text) == SplitAcc(text, <<>>, <<>>)

RECURSIVE WrapLoopStrict(_, _, _, _)
\* the loop with the comparison test_width < max_width
WrapLoopStrict(words, current_line, lines, max_width) ==
    IF words = <<>> THEN [current_line |-> current_line, lines |-> lines]
    ELSE LET word == Head(words)
             test_line == IF current_line # <<>>
                             THEN current_line \o <<" ">> \o word ELSE word
             test_width == TextWidth(test_line)
         IN IF test_width < max_width
               THEN WrapLoopStrict(Tail(words), test_line, lines, max_width)
               ELSE WrapLoopStrict(Tail(words), word,
                                   IF current_line # <<>>
                                      THEN Append(lines, current_line) ELSE lines,
                                   max_width)

RECURSIVE WrapLoopDrop(_, _, _, _)
\* the loop that forgets to emit the current line when a word overflows
WrapLoopDrop(words, current_line, lines, max_width) ==
    IF words = <<>> THEN [current_line |-> current_line, lines |-> lines]
    ELSE LET word == Head(words)
             test_line == IF current_line # <<>>
                             THEN current_line \o <<" ">> \o word ELSE word
             test_width == TextWidth(test_line)
         IN IF test_width <= max_width
               THEN WrapLoopDrop(Tail(words), test_line, lines, max_width)
               ELSE WrapLoopDrop(Tail(words), word, lines, max_width)

RECURSIVE WrapLoop(_, _, _, _)
\* for word in words: ... (the body of the word-wrap loop)
WrapLoop(words, current_line, lines, max_width) ==
    IF words = <<>> THEN [current_line |-> current_line, lines |-> lines]
    ELSE LET word == Head(words)
             test_line == IF current_line # <<>>
                             THEN current_line \o <<" ">> \o word ELSE word
             test_width == TextWidth(test_line)
         IN IF test_width <= max_width
               THEN WrapLoop(Tail(words), test_line, lines, max_width)
               ELSE WrapLoop(Tail(words), word,
                             IF current_line # <<>>
                                THEN Append(lines, current_line) ELSE lines,
                             max_width)

\* The lines the word-wrap emits.
WrapLines(text, max_width) ==
    LET r == WrapLoop(split(text), <<>>, <<>>, max_width)
        lines == IF r.current_line # <<>>
                    THEN Append(r.lines, r.current_line) ELSE r.lines
    IN IF lines = <<>> THEN << <<>> >> ELSE lines

\* the image with the leading of the ReportLab styles (font_size + 2)
ParagraphImageLeading2(lines, font_size, max_width) ==
    LET line_height == font_size + 2
        total_height == Len(lines) * line_height
        padding_x == 10
        padding_y == 5
    IN [width |-> max_width + 2 * padding_x,
        height |-> total_height + 2 * padding_y,
        allocated |-> TRUE,
        draws |-> [i \in 1..Len(lines) |->
                     [x |-> padding_x, y |-> padding_y + (i - 1) * line_height,
                      text |-> lines[i]]]]

\* The image composed from the wrapped lines.
ParagraphImage(lines, font_size, max_width) ==
    LET line_height == font_size + 4
        total_height == Len(lines) * line_height
        padding_x == 10
        padding_y == 5
    IN [width |-> max_width + 2 * padding_x,
        height |-> total_height + 2 * padding_y,
        allocated |-> TRUE,
        draws |-> [i \in 1..Len(lines) |->
                     [x |-> padding_x, y |-> padding_y + (i - 1) * line_height,
                      text |-> lines[i]]]]

render_bengali_paragraph_to_image ==
    /\ args.kind = "paragraph"
    /\ LET f == SelectFontParagraph(args.bold) IN
       ret' = IF f.raised # "none"
                 THEN [raised |-> f.raised]
                 ELSE [raised |-> "none", font |-> f.face,
                       img |-> ParagraphImage(WrapLines(args.text, args.max_width),
                                              args.font_size, args.max_width)]
    /\ call' = "render_bengali_paragraph_to_image"
    /\ UNCHANGED <<regFile, boldFile, FONTS_REGISTERED, registry, handed,
                   canvas, tempFiles, tempSeq, args>>

\* ------------------------------------------------------------------ init

\* The process right after import: nothing registered, no call made yet.
InitProcess ==
    /\ regFile \in FileStates
    /\ boldFile \in FileStates
    /\ FONTS_REGISTERED = FALSE
    /\ registry = {"Helvetica", "Helvetica-Bold"}
    /\ handed = [n \in {"BN", "BN-Bold", "NotoSansBengali",
                        "NotoSansBengali-Bold"} |-> 0]
    /\ canvas = [fontname |-> "Helvetica", fontsize |-> 12, fill |-> "BLACK"]
    /\ tempFiles = {}
    /\ tempSeq = 0
    /\ call = "none"
    /\ ret = [raised |-> "pending"]

\* "ABCDE FGHIJ KLMNO"
Example == <<"A", "B", "C", "D", "E", " ", "F", "G", "H", "I", "J", " ",
             "K", "L", "M", "N", "O">>
ExampleLine1 == SubSeq(Example, 1, 11)
ExampleLine2 == SubSeq(Example, 13, 17)
\* the widths that fit exactly two tokens of Example
ExampleWidths == TextWidth(ExampleLine1) .. (TextWidth(Example) - 1)

TextArgs ==
    [kind : {"text"}, text : TextsUpTo(MaxTextLen), font_size : FontSizes,
     bold : BOOLEAN, bbox : BBoxes]

ParagraphArgs ==
    [kind : {"paragraph"}, text : TextsUpTo(MaxParaLen), font_size : FontSizes,
     bold : BOOLEAN, max_width : 0..MaxWidth]
    \cup [kind : {"paragraph"}, text : {Example}, font_size : FontSizes,
          bold : BOOLEAN,
          max_width : ExampleWidths \cup {MaxWidth, TextWidth(Example)}]

InitRaster ==
    /\ InitProcess
    /\ args \in TextArgs \cup ParagraphArgs

NextRaster ==
    \/ render_bengali_text_to_image
    \/ render_bengali_paragraph_to_image

SpecRaster == InitRaster /\ [][NextRaster]_vars

\* ======================================================== claims: raster

TextCall == call = "render_bengali_text_to_image"
ParagraphCall == call = "render_bengali_paragraph_to_image"
Returned == ret.raised = "none"
Lines == [i \in 1..Len(ret.img.draws) |-> ret.img.draws[i].text]

\* the non-empty words of a string, in order
Tokens(text) == SelectSeq(split(text), LAMBDA w : w # <<>>)
FirstToken(line) == Head(split(line))

RECURSIVE Join(_)
Join(lines) ==
    IF lines = <<>> THEN <<>>
    ELSE IF Len(lines) = 1 THEN lines[1]
    ELSE lines[1] \o <<" ">> \o Join(Tail(lines))

\* C1: for a non-empty text and any reported bounding box, the image that
\* render_bengali_text_to_image returns has width > 0 and height > 0.
C1_PositiveSize ==
    (TextCall /\ Returned /\ args.text # <<>>)
        => (ret.img.width > 0 /\ ret.img.height > 0)

\* C1 witness: a non-empty text measured with negative extents was rendered.
C1_Witness ==
    /\ TextCall /\ Returned /\ args.text # <<>>
    /\ args.bbox[3] - args.bbox[1] < -20
    /\ args.bbox[4] - args.bbox[2] < -10
    /\ ret.img.width = 10 /\ ret.img.height = 10

\* C5: the word-wrap is greedy: a line is closed only when the next token
\* would not fit (line + " " + next token is wider than max_width), and
\* "ABCDE FGHIJ KLMNO" with a max_width that fits exactly two tokens gives
\* the two lines "ABCDE FGHIJ" and "KLMNO".
C5_GreedyWrap ==
    (ParagraphCall /\ Returned) =>
        /\ \A i \in 1..(Len(Lines) - 1) :
              TextWidth(Lines[i] \o <<" ">> \o FirstToken(Lines[i + 1]))
                  > args.max_width
        /\ (args.text = Example /\ args.max_width \in ExampleWidths)
              => Lines = <<ExampleLine1, ExampleLine2>>

\* C5 witness: the example was wrapped at the smallest width that fits two
\* tokens, into two lines.
C5_Witness ==
    /\ ParagraphCall /\ Returned
    /\ args.text = Example
    /\ args.max_width = TextWidth(ExampleLine1)
    /\ Len(Lines) = 2

\* C6: no token is broken or dropped: every line is at most max_width wide
\* or is one single token, and the non-empty tokens of the lines joined by
\* single spaces are the non-empty tokens of the input, in order.
C6_NoTokenLost ==
    (ParagraphCall /\ Returned) =>
        /\ \A i \in 1..Len(Lines) :
              \/ TextWidth(Lines[i]) <= args.max_width
              \/ /\ Lines[i] # <<>>
                 /\ \A k \in 1..Len(Lines[i]) : Lines[i][k] # " "
                 /\ \E j \in 1..Len(split(args.text)) :
                        split(args.text)[j] = Lines[i]
        /\ Tokens(Join(Lines)) = Tokens(args.text)

\* C6 witness: a token wider than max_width was emitted alone, in an input
\* with consecutive spaces that wrapped into several lines.
C6_Witness ==
    /\ ParagraphCall /\ Returned
    /\ Len(Lines) >= 2
    /\ \E i \in 1..Len(Lines) : TextWidth(Lines[i]) > args.max_width
    /\ \E k \in 1..(Len(args.text) - 1) :
          args.text[k] = " " /\ args.text[k + 1] = " "

\* C3: when no font face can be loaded the rasterizer still returns, with
\* the estimate width = 0.6 * font_size * len(text), height = 1.5 * font_size.
C3_FallbackEstimate ==
    ((TextCall \/ ParagraphCall) /\ regFile # "ok" /\ boldFile # "ok") =>
        /\ Returned
        /\ 10 * ret.img.width = 6 * args.font_size * Len(args.text)
        /\ 2 * ret.img.height = 3 * args.font_size

\* C11: in the paragraph image line i (0-based) is drawn at
\* y = padding_y + i * (font_size + 4), consecutive lines are font_size + 4
\* apart, and the height is (number of lines) * (font_size + 4) + 2 * padding_y.
C11_LineHeight ==
    (ParagraphCall /\ Returned) =>
        LET draws == ret.img.draws
            n == Len(draws)
        IN /\ \A i \in 1..n : draws[i].y = 5 + (i - 1) * (args.font_size + 4)
           /\ \A i \in 1..(n - 1) : draws[i + 1].y - draws[i].y = args.font_size + 4
           /\ ret.img.height = n * (args.font_size + 4) + 2 * 5

\* C11 witness: a paragraph of three lines was rendered at font size 12.
C11_Witness ==
    /\ ParagraphCall /\ Returned
    /\ args.font_size = 12
    /\ Len(ret.img.draws) = 3
    /\ ret.img.draws[3].y = 37
    /\ ret.img.height = 58

\* the box the glyph run covers in the image: the pen position plus the
\* offsets of the measured bounding box
GlyphBox ==
    LET d == ret.img.draws[1]
    IN [left |-> d.x + args.bbox[1], right |-> d.x + args.bbox[3],
        top |-> d.y + args.bbox[2], bottom |-> d.y + args.bbox[4]]

\* the measured extents of the run
ExtentX == args.bbox[3] - args.bbox[1]
ExtentY == args.bbox[4] - args.bbox[2]

\* C13: the glyph run is never clipped: for every bounding box the text is
\* drawn at (padding_x - left, padding_y - top), so the drawn box starts at
\* the padding and ends at padding + extent, which is inside the bitmap on
\* both axes, the minimum-size floor included; the padding is the same on
\* both sides wherever the floor is not applied (and larger on the far side
\* where it is).
C13_NeverClipped ==
    (TextCall /\ Returned) =>
        /\ GlyphBox.left = 10 /\ GlyphBox.top = 5
        /\ GlyphBox.right = 10 + ExtentX /\ GlyphBox.bottom = 5 + ExtentY
        /\ 0 <= GlyphBox.left /\ GlyphBox.right <= ret.img.width
        /\ 0 <= GlyphBox.top /\ GlyphBox.bottom <= ret.img.height
        /\ ret.img.width - GlyphBox.right >= 10
        /\ ret.img.height - GlyphBox.bottom >= 5
        /\ ExtentX + 20 >= 10 => ret.img.width - GlyphBox.right = 10
        /\ ExtentY + 10 >= 10 => ret.img.height - GlyphBox.bottom = 5

\* C13 witness: a run with negative left and top offsets was drawn into an
\* image whose height is the floor.
C13_Witness ==
    /\ TextCall /\ Returned
    /\ args.bbox[1] < 0 /\ args.bbox[2] < 0
    /\ ExtentX > 0 /\ ExtentY < 0 /\ ExtentY >= -5
    /\ ret.img.height = 10
    /\ ret.img.draws[1].x > 10

\* C14: every emitted line fits inside the paragraph image horizontally:
\* padding_x + line width <= image width.
C14_LinesFit ==
    (ParagraphCall /\ Returned) =>
        \A i \in 1..Len(Lines) : 10 + TextWidth(Lines[i]) <= ret.img.width

\* ======================================================= font registration

\* The four names this code hands to pdfmetrics.registerFont.
Hand(h, name) == [h EXCEPT ![name] = @ + 1]

\* register_bengali_fonts(): the state it leaves and what it raises.
\* TTFont(name, path) raises on a file that cannot be parsed.
RegisterBengaliFonts ==
    LET same == [flag |-> FONTS_REGISTERED, registry |-> registry,
                 handed |-> handed]
    IN IF FONTS_REGISTERED
          THEN same @@ [raised |-> "none"]
       ELSE IF ~exists(regFile) \/ ~exists(boldFile)
          THEN same @@ [raised |-> "FileNotFoundError"]
       ELSE IF regFile = "corrupt"
          THEN same @@ [raised |-> "TTFError"]
       ELSE IF boldFile = "corrupt"
          THEN [flag |-> FALSE, registry |-> registry \cup {"BN"},
                handed |-> Hand(handed, "BN"), raised |-> "TTFError"]
       ELSE [flag |-> TRUE, registry |-> registry \cup {"BN", "BN-Bold"},
             handed |-> Hand(Hand(handed, "BN"), "BN-Bold"),
             raised |-> "none"]

\* register_fonts(): the state it leaves and the value it returns.
RegisterFonts ==
    LET tryRegular == exists(regFile) /\ "NotoSansBengali" \notin registry
        tryBold == exists(boldFile) /\ "NotoSansBengali-Bold" \notin registry
        afterRegular ==
            IF tryRegular /\ regFile = "ok"
               THEN [registry |-> registry \cup {"NotoSansBengali"},
                     handed |-> Hand(handed, "NotoSansBengali")]
               ELSE [registry |-> registry, handed |-> handed]
    IN IF tryRegular /\ regFile = "corrupt"
          THEN afterRegular @@ [value |-> FALSE]
       ELSE IF tryBold /\ boldFile = "corrupt"
          THEN afterRegular @@ [value |-> FALSE]
       ELSE IF tryBold
          THEN [registry |-> afterRegular.registry \cup {"NotoSansBengali-Bold"},
                handed |-> Hand(afterRegular.handed, "NotoSansBengali-Bold"),
                value |-> TRUE]
       ELSE afterRegular @@ [value |-> TRUE]

register_bengali_fonts ==
    /\ handed["BN"] < MaxHanded
    /\ LET r == RegisterBengaliFonts IN
        /\ FONTS_REGISTERED' = r.flag
        /\ registry' = r.registry
        /\ handed' = r.handed
        /\ ret' = [raised |-> r.raised, drawn |-> <<>>]
    /\ call' = "register_bengali_fonts"
    /\ UNCHANGED <<regFile, boldFile, canvas, tempFiles, tempSeq, args>>

register_fonts ==
    /\ LET r == RegisterFonts IN
        /\ registry' = r.registry
        /\ handed' = r.handed
        /\ ret' = [raised |-> "none", value |-> r.value, drawn |-> <<>>]
    /\ call' = "register_fonts"
    /\ UNCHANGED <<regFile, boldFile, FONTS_REGISTERED, canvas, tempFiles,
                   tempSeq, args>>

\* ========================================================= canvas drawing

CARD_WIDTH == 54

RECURSIVE lstrip(_)
lstrip(s) == IF s # <<>> /\ Head(s) = " " THEN lstrip(Tail(s)) ELSE s

RECURSIVE rstrip(_)
rstrip(s) ==
    IF s # <<>> /\ s[Len(s)] = " " THEN rstrip(SubSeq(s, 1, Len(s) - 1)) ELSE s

\* str(text).strip()
strip(s) == rstrip(lstrip(s))

\* The single character U+2026 (horizontal ellipsis).
Ellipsis == "..."

\* truncation that keeps max_chars characters before the ellipsis
TruncateKeepAll(text, max_chars) ==
    IF Truthy(max_chars) /\ Len(text) > max_chars[1]
       THEN SubSeq(text, 1, max_chars[1]) \o <<Ellipsis>>
       ELSE text

\* if max_chars and len(text) > max_chars: text = text[:max_chars-1] + U+2026
Truncate(text, max_chars) ==
    IF Truthy(max_chars) /\ Len(text) > max_chars[1]
       THEN SubSeq(text, 1, max_chars[1] - 1) \o <<Ellipsis>>
       ELSE text

\* c.stringWidth(text, fontname, size): bold faces are wider.
StringWidth(text, fontname, size) ==
    TextWidth(text) * size
      + (IF fontname \in {"NotoSansBengali-Bold", "Helvetica-Bold"}
            THEN Len(text) ELSE 0)

\* use_font(c, size, bold): the canvas with the font set.
UseFont(c, size, bold) ==
    LET font_name == IF bold THEN "NotoSansBengali-Bold" ELSE "NotoSansBengali"
    IN IF font_name \in registry
          THEN [c EXCEPT !.fontname = font_name, !.fontsize = size]
          ELSE [c EXCEPT !.fontname = IF bold THEN "Helvetica-Bold"
                                              ELSE "Helvetica",
                         !.fontsize = size]

\* draw_text measuring the text before it is stripped and truncated
DrawTextMeasureFirst(c, x, y, text, size, bold, color, centered, width, max_chars) ==
    IF text = <<>> THEN [canvas |-> c, drawn |-> <<>>]
    ELSE LET text1 == Truncate(strip(text), max_chars)
             c1 == [UseFont(c, size, bold) EXCEPT !.fill = color]
             text_width == StringWidth(text, c1.fontname, size)
             x2 == IF centered /\ Truthy(width)
                      THEN 2 * x + (width[1] - text_width) ELSE 2 * x
         IN [canvas |-> c1,
             drawn |-> <<[op |-> "drawString", x2 |-> x2, y |-> y,
                          text |-> text1, font |-> c1.fontname]>>]

\* draw_text(c, x, y, text, size, bold, color, centered, width, max_chars):
\* the canvas it leaves and the draw calls it issued.
DrawText(c, x, y, text, size, bold, color, centered, width, max_chars) ==
    IF text = <<>> THEN [canvas |-> c, drawn |-> <<>>]
    ELSE LET text1 == Truncate(strip(text), max_chars)
             c1 == [UseFont(c, size, bold) EXCEPT !.fill = color]
             text_width == StringWidth(text1, c1.fontname, size)
             x2 == IF centered /\ Truthy(width)
                      THEN 2 * x + (width[1] - text_width) ELSE 2 * x
         IN [canvas |-> c1,
             drawn |-> <<[op |-> "drawString", x2 |-> x2, y |-> y,
                          text |-> text1, font |-> c1.fontname]>>]

\* draw_centered_text(c, y, text, size, bold, color, max_chars)
DrawCenteredText(c, y, text, size, bold, color, max_chars) ==
    IF text = <<>> THEN [canvas |-> c, drawn |-> <<>>]
    ELSE LET text1 == Truncate(strip(text), max_chars)
             c1 == [UseFont(c, size, bold) EXCEPT !.fill = color]
             text_width == StringWidth(text1, c1.fontname, size)
         IN [canvas |-> c1,
             drawn |-> <<[op |-> "drawString", x2 |-> CARD_WIDTH - text_width,
                          y |-> y, text |-> text1, font |-> c1.fontname]>>]

draw_text ==
    /\ args.kind = "draw"
    /\ LET r == DrawText(canvas, args.x, args.y, args.text, args.size,
                         args.bold, args.color, args.centered, args.width,
                         args.max_chars) IN
        /\ canvas' = r.canvas
        /\ ret' = [raised |-> "none", drawn |-> r.drawn]
    /\ call' = "draw_text"
    /\ UNCHANGED <<regFile, boldFile, FONTS_REGISTERED, registry, handed,
                   tempFiles, tempSeq, args>>

draw_centered_text ==
    /\ args.kind = "draw"
    /\ LET r == DrawCenteredText(canvas, args.y, args.text, args.size,
                                 args.bold, args.color, args.max_chars) IN
        /\ canvas' = r.canvas
        /\ ret' = [raised |-> "none", drawn |-> r.drawn]
    /\ call' = "draw_centered_text"
    /\ UNCHANGED <<regFile, boldFile, FONTS_REGISTERED, registry, handed,
                   tempFiles, tempSeq, args>>

\* draw_bn_text(canvas, text, x, y, width, font_size, bold, align) and
\* draw_bn_multiline(canvas, text, x, y, width, font_size, align): both
\* return on falsy text, else register the fonts and draw one Paragraph
\* (drawOn saves and restores the canvas state).
DrawBnParagraph(fn, fontName) ==
    /\ args.kind = "draw"
    /\ handed["BN"] < MaxHanded
    /\ IF args.text = <<>>
          THEN /\ ret' = [raised |-> "none", drawn |-> <<>>]
               /\ UNCHANGED <<FONTS_REGISTERED, registry, handed>>
          ELSE LET r == RegisterBengaliFonts IN
               /\ FONTS_REGISTERED' = r.flag
               /\ registry' = r.registry
               /\ handed' = r.handed
               /\ ret' = IF r.raised # "none"
                            THEN [raised |-> r.raised, drawn |-> <<>>]
                            ELSE [raised |-> "none",
                                  drawn |-> <<[op |-> "Paragraph.drawOn",
                                               x2 |-> 2 * args.x, y |-> args.y,
                                               text |-> args.text,
                                               font |-> fontName]>>]
    /\ call' = fn
    /\ UNCHANGED <<regFile, boldFile, canvas, tempFiles, tempSeq, args>>

draw_bn_text ==
    DrawBnParagraph("draw_bn_text", IF args.bold THEN "BN-Bold" ELSE "BN")

draw_bn_multiline == DrawBnParagraph("draw_bn_multiline", "BN")

\* truncate_text(text, max_length): "" for falsy text, the text itself when
\* len(text) <= max_length, else text[:max_length] + U+2026.
TruncateText(text, max_length) ==
    IF text = <<>> THEN <<>>
    ELSE IF Len(text) <= max_length THEN text
    ELSE SubSeq(text, 1, max_length) \o <<Ellipsis>>

\* the max_length of a truncate_text call: the default 30 when not passed
MaxLength == IF args.max_chars = None THEN 30 ELSE args.max_chars[1]

truncate_text ==
    /\ args.kind = "draw"
    /\ ret' = [raised |-> "none", value |-> TruncateText(args.text, MaxLength),
               drawn |-> <<>>]
    /\ call' = "truncate_text"
    /\ UNCHANGED <<regFile, boldFile, FONTS_REGISTERED, registry, handed,
                   canvas, tempFiles, tempSeq, args>>

\* a padded text longer than every max_chars of DrawArgs
LongText == <<" ", "a", "b", "a", " ">>

DrawArgs ==
    [kind : {"draw"}, text : TextsUpTo(MaxTextLen) \cup {LongText}, x : {3}, y : {10},
     size : {5}, bold : BOOLEAN, color : {"WHITE"}, centered : BOOLEAN,
     width : {None, Some(0), Some(20), Some(60)},
     max_chars : {None, Some(1), Some(2)}]

InitCanvas ==
    /\ InitProcess
    /\ args \in DrawArgs

NextCanvas ==
    \/ register_bengali_fonts
    \/ register_fonts
    \/ draw_text
    \/ draw_centered_text
    \/ draw_bn_text
    \/ draw_bn_multiline
    \/ truncate_text

SpecCanvas == InitCanvas /\ [][NextCanvas]_vars

\* ================================================ image embedding (files)

\* What a call meets: url kind ("none" is a falsy url, "data" a data:image
\* url, "http" an http(s) url, "path" a local path), whether the base64
\* payload decodes, the HTTP outcome, whether PIL can open the image,
\* whether canvas.drawImage accepts the file, whether os.unlink succeeds
\* (it raises OSError when the file is still held open or already gone).
ImageArgs ==
    [kind : {"image"}, url : {"none", "data", "http", "path"},
     decodeOk : BOOLEAN, http : {"200", "404", "error"},
     imageOk : BOOLEAN, drawOk : BOOLEAN, unlinkOk : BOOLEAN,
     circular : BOOLEAN]

\* tempfile.NamedTemporaryFile(delete=False): a new file on disk
NewTemp(fs) ==
    [files |-> fs.files \cup {fs.seq + 1}, seq |-> fs.seq + 1,
     created |-> fs.created \cup {fs.seq + 1}]

\* os.unlink(name)
Unlink(fs, name) == [fs EXCEPT !.files = @ \ {name}]

\* if not photo_url: draw the placeholder
Placeholder(fs, depth) ==
    [fs |-> fs, drawn |-> <<"placeholder">>, depth |-> depth]

\* The "Load photo" step shared by draw_photo and draw_logo: the temp file
\* acquired (0: none), or the way the step ends early.
LoadImage(fs, a) ==
    IF a.url = "data"
       THEN IF a.decodeOk
               THEN [fs |-> NewTemp(fs), temp_file |-> fs.seq + 1, end |-> "loaded"]
               ELSE [fs |-> fs, temp_file |-> 0, end |-> "exception"]
    ELSE IF a.url = "http"
       THEN IF a.http = "error"
               THEN [fs |-> fs, temp_file |-> 0, end |-> "exception"]
            ELSE IF a.http = "200"
               THEN [fs |-> NewTemp(fs), temp_file |-> fs.seq + 1, end |-> "loaded"]
            ELSE [fs |-> fs, temp_file |-> 0, end |-> "status"]
    ELSE [fs |-> fs, temp_file |-> 0, end |-> "loaded"]

\* except Exception after c.drawImage has run: the recursive call draws the
\* placeholder on top of the photo already on the page.
PlaceholderOverPhoto(fs) ==
    [fs |-> fs, drawn |-> <<"photo", "placeholder">>, depth |-> 1]

\* draw_photo(c, x, y, width, height, photo_url, circular); a recursive call
\* with photo_url None draws the placeholder one level down.  The try block
\* covers the os.unlink calls that follow c.drawImage.
DrawPhoto(fs0, a) ==
    IF a.url = "none" THEN Placeholder(fs0, 0)
    ELSE LET l == LoadImage(fs0, a) IN
         IF l.end # "loaded" THEN Placeholder(l.fs, 1)
         ELSE IF a.circular
            THEN IF ~a.imageOk THEN Placeholder(l.fs, 1)
                 ELSE LET p == NewTemp(l.fs) IN
                      IF ~a.drawOk THEN Placeholder(p, 1)
                      ELSE IF ~a.unlinkOk THEN PlaceholderOverPhoto(p)
                      ELSE LET u == Unlink(p, p.seq) IN
                           [fs |-> IF l.temp_file # 0
                                      THEN Unlink(u, l.temp_file) ELSE u,
                            drawn |-> <<"photo">>, depth |-> 0]
            ELSE IF ~a.drawOk THEN Placeholder(l.fs, 1)
                 ELSE IF l.temp_file # 0 /\ ~a.unlinkOk
                    THEN PlaceholderOverPhoto(l.fs)
                 ELSE [fs |-> IF l.temp_file # 0
                                 THEN Unlink(l.fs, l.temp_file) ELSE l.fs,
                       drawn |-> <<"photo">>, depth |-> 0]

\* draw_logo(c, x, y, size, logo_url)
DrawLogo(fs0, a) ==
    IF a.url = "none" THEN [fs |-> fs0, drawn |-> <<>>, value |-> FALSE]
    ELSE LET l == LoadImage(fs0, a) IN
         IF l.end # "loaded" THEN [fs |-> l.fs, drawn |-> <<>>, value |-> FALSE]
         ELSE IF ~a.drawOk THEN [fs |-> l.fs, drawn |-> <<>>, value |-> FALSE]
         ELSE IF l.temp_file # 0 /\ ~a.unlinkOk
            THEN [fs |-> l.fs, drawn |-> <<"logo">>, value |-> FALSE]
         ELSE [fs |-> IF l.temp_file # 0
                         THEN Unlink(l.fs, l.temp_file) ELSE l.fs,
               drawn |-> <<"logo">>, value |-> TRUE]

\* the temp-file state a call starts from
Disk == [files |-> tempFiles, seq |-> tempSeq, created |-> {}]

draw_photo ==
    /\ args.kind = "image"
    /\ tempSeq < MaxTemp
    /\ LET r == DrawPhoto(Disk, args) IN
        /\ tempFiles' = r.fs.files
        /\ tempSeq' = r.fs.seq
        /\ ret' = [raised |-> "none", drawn |-> r.drawn,
                   created |-> r.fs.created, depth |-> r.depth]
    /\ call' = "draw_photo"
    /\ UNCHANGED <<regFile, boldFile, FONTS_REGISTERED, registry, handed,
                   canvas, args>>

draw_logo ==
    /\ args.kind = "image"
    /\ tempSeq < MaxTemp
    /\ LET r == DrawLogo(Disk, args) IN
        /\ tempFiles' = r.fs.files
        /\ tempSeq' = r.fs.seq
        /\ ret' = [raised |-> "none", drawn |-> r.drawn,
                   created |-> r.fs.created, value |-> r.value]
    /\ call' = "draw_logo"
    /\ UNCHANGED <<regFile, boldFile, FONTS_REGISTERED, registry, handed,
                   canvas, args>>

InitFiles ==
    /\ InitProcess
    /\ args \in ImageArgs

NextFiles ==
    \/ draw_photo
    \/ draw_logo

SpecFiles == InitFiles /\ [][NextFiles]_vars

\* C10: every temp file a call of draw_photo or draw_logo created is
\* unlinked when the call returns, on every exit path.
C10_TempFilesReleased ==
    (call \in {"draw_photo", "draw_logo"}) => (ret.created \cap tempFiles = {})

\* C16: draw_photo always ends having drawn exactly one of the photo and
\* the grey placeholder and raises nothing: for a missing url, a non-200
\* response or any exception while loading or embedding it is the
\* placeholder, drawn once, the fallback call is at most one level deep, and
\* a photo and a placeholder are never both drawn by one call.
C16_PhotoOrPlaceholder ==
    call = "draw_photo" =>
        /\ ret.raised = "none"
        /\ ret.depth <= 1
        /\ ret.drawn \in {<<"photo">>, <<"placeholder">>}
        /\ ~({"photo", "placeholder"} \subseteq
                {ret.drawn[i] : i \in 1..Len(ret.drawn)})
        /\ (\/ args.url = "none"
            \/ (args.url = "http" /\ args.http # "200")
            \/ (args.url = "data" /\ ~args.decodeOk)
            \/ (args.circular /\ ~args.imageOk)
            \/ ~args.drawOk) => ret.drawn = <<"placeholder">>

\* ============================================================ card pages

CARD_HEIGHT == 86

\* One drawing operation on a page: whose card, which side, what, and the
\* doubled y coordinate in mm (0 where the code gives none of interest).
Op(who, side, what, y2) == [who |-> who, side |-> side, what |-> what, y2 |-> y2]

\* c.showPage(): close the current page and start an empty one.
ShowPage(c) == [c EXCEPT !.pages = Append(@, c.cur), !.cur = <<>>]

\* c.save(): a page that holds drawing code is closed first.
Save(c) == IF c.cur # <<>> THEN ShowPage(c) ELSE c

\* append drawing operations to the current page
Draw(c, ops) == [c EXCEPT !.cur = @ \o ops]

\* the photo a student or staff record carries, as draw_photo meets it
PhotoInputs ==
    [kind : {"image"}, url : {"none", "data"}, decodeOk : {TRUE},
     http : {"200"}, imageOk : BOOLEAN, drawOk : {TRUE}, unlinkOk : {TRUE},
     circular : {TRUE}]

\* the institution's logo_url, as draw_logo meets it
LogoInputs ==
    [kind : {"image"}, url : {"none", "path"}, decodeOk : {TRUE},
     http : {"200"}, imageOk : {TRUE}, drawOk : {TRUE}, unlinkOk : {TRUE},
     circular : {FALSE}]

RECURSIVE DetailRows(_, _, _, _)
\* The "if field: draw_text(...); details_y -= line_height" rows.
\* fields: sequence of [label, present]; details_y2 is doubled.
DetailRows(who, fields, details_y2, line_height2) ==
    IF fields = <<>> THEN <<>>
    ELSE IF Head(fields).present
       THEN <<Op(who, "front", Head(fields).label, details_y2)>>
            \o DetailRows(who, Tail(fields), details_y2 - line_height2,
                          line_height2)
       ELSE DetailRows(who, Tail(fields), details_y2, line_height2)

\* The front side of a card (student or staff): header, logo, institution
\* name, body, photo, name, detail rows, signature, footer.
CardFront(c, who, photo, logo, fields, footer) ==
    LET header_height == 28
        photo_size == 22
        body_top == CARD_HEIGHT - header_height
        photo_y == body_top - photo_size - 5
        name_y == photo_y - 6
        details_y == name_y - 5
        line_height == 4
        sig_y == 18
        lg == DrawLogo(c.fs, logo)
        ph == DrawPhoto(lg.fs, photo)
        ops == <<Op(who, "front", "header", 2 * body_top)>>
               \o [i \in 1..Len(lg.drawn) |-> Op(who, "front", lg.drawn[i], 0)]
               \o <<Op(who, "front", "institution", 2 * (CARD_HEIGHT - 26)),
                    Op(who, "front", "body", 2 * 12),
                    Op(who, "front", "photo border", 2 * photo_y)>>
               \o [i \in 1..Len(ph.drawn) |->
                     Op(who, "front", ph.drawn[i], 2 * photo_y)]
               \o <<Op(who, "front", "name", 2 * name_y)>>
               \o DetailRows(who, fields, 2 * details_y, 2 * line_height)
               \o <<Op(who, "front", "signature line", 2 * sig_y),
                    Op(who, "front", "signature label", 2 * (sig_y - 3)),
                    Op(who, "front", "footer", 2 * 8),
                    Op(who, "front", footer, 5)>>
    IN [Draw(c, ops) EXCEPT !.fs = ph.fs]

\* The back side of a card: background, warning lines, logo, institution
\* block, (student cards: emergency box,) dates.
CardBack(c, who, institution, warnings, emergency) ==
    LET lg == DrawLogo(c.fs, institution.logo)
        warning_y == CARD_HEIGHT - 8
        watermark_y2 == CARD_HEIGHT - 2 * 2
        inst_y2 == watermark_y2 - 2 * 5
        ops == <<Op(who, "back", "background", 0)>>
               \o [i \in 1..warnings |->
                     Op(who, "back", "warning", 2 * (warning_y - (i - 1) * 4))]
               \o [i \in 1..Len(lg.drawn) |-> Op(who, "back", lg.drawn[i], watermark_y2)]
               \o <<Op(who, "back", "institution", inst_y2)>>
               \o (IF institution.address
                      THEN <<Op(who, "back", "address", inst_y2 - 2 * 4)>>
                      ELSE <<>>)
               \o (IF institution.phone
                      THEN <<Op(who, "back", "phone", inst_y2 - 2 * 8)>>
                      ELSE <<>>)
               \o (IF emergency
                      THEN <<Op(who, "back", "emergency box", 2 * 18),
                             Op(who, "back", "emergency label", 2 * (18 + 5)),
                             Op(who, "back", "emergency phone", 2 * 18 + 3)>>
                      ELSE <<>>)
               \o <<Op(who, "back", "issue date", 2 * 10),
                    Op(who, "back", "expiry date", 2 * 6)>>
    IN [Draw(c, ops) EXCEPT !.fs = lg.fs]

\* the four optional detail rows of a student card, in drawing order
StudentFields(student, class_name) ==
    <<[label |-> "father", present |-> student.father_name],
      [label |-> "class", present |-> class_name],
      [label |-> "id", present |-> student.admission_no],
      [label |-> "phone", present |-> student.guardian_phone]>>

\* the three optional detail rows of a staff card, in drawing order
StaffFields(staff, department) ==
    <<[label |-> "designation", present |-> staff.designation],
      [label |-> "department", present |-> department \/ staff.department],
      [label |-> "phone", present |-> staff.phone]>>

\* _draw_student_card_front(c, student, institution, class_name)
DrawStudentCardFront(c, who, student, institution, class_name) ==
    CardFront(c, who, student.photo, institution.logo,
              StudentFields(student, class_name), "STUDENT CARD")

\* _draw_student_card_back(c, student, institution)
DrawStudentCardBack(c, who, institution) ==
    CardBack(c, who, institution, 3, TRUE)

\* a fresh pdf_canvas.Canvas(buffer, pagesize=(CARD_WIDTH, CARD_HEIGHT))
NewCanvas == [pages |-> <<>>, cur |-> <<>>, fs |-> Disk]

\* generate_student_id_card_pdf: front, showPage, back, save
StudentCardPdf(student, institution, class_name) ==
    LET front == DrawStudentCardFront(NewCanvas, 1, student, institution,
                                      class_name)
        back == DrawStudentCardBack(ShowPage(front), 1, institution)
    IN Save(back)

\* generate_staff_id_card_pdf: front, showPage, back, save
StaffCardPdf(staff, institution, department) ==
    LET front == CardFront(NewCanvas, 1, staff.photo, institution.logo,
                           StaffFields(staff, department), "STAFF CARD")
        back == CardBack(ShowPage(front), 1, institution, 2, FALSE)
    IN Save(back)

RECURSIVE BulkLoopAlwaysShowPage(_, _, _, _, _)
\* the loop with c.showPage() before every front, the first included
BulkLoopAlwaysShowPage(c, i, students, institution, class_name) ==
    IF i > Len(students) THEN c
    ELSE LET c1 == ShowPage(c)
             front == DrawStudentCardFront(c1, i, students[i], institution,
                                           class_name)
             back == DrawStudentCardBack(ShowPage(front), i, institution)
         IN BulkLoopAlwaysShowPage(back, i + 1, students, institution, class_name)

RECURSIVE BulkLoop(_, _, _, _, _)
\* for i, student in enumerate(students): ...   (i is 1-based here)
BulkLoop(c, i, students, institution, class_name) ==
    IF i > Len(students) THEN c
    ELSE LET c1 == IF i > 1 THEN ShowPage(c) ELSE c
             front == DrawStudentCardFront(c1, i, students[i], institution,
                                           class_name)
             back == DrawStudentCardBack(ShowPage(front), i, institution)
         IN BulkLoop(back, i + 1, students, institution, class_name)

\* generate_bulk_id_cards_pdf
BulkCardsPdf(students, institution, class_name) ==
    Save(BulkLoop(NewCanvas, 1, students, institution, class_name))

\* The generate_* functions first call register_fonts(), then build the PDF.
Generate(fn, pdf) ==
    /\ tempSeq < MaxTemp
    /\ LET r == RegisterFonts IN
        /\ registry' = r.registry
        /\ handed' = r.handed
    /\ tempFiles' = pdf.fs.files
    /\ tempSeq' = pdf.fs.seq
    /\ ret' = [raised |-> "none", pages |-> pdf.pages,
               created |-> pdf.fs.created]
    /\ call' = fn
    /\ UNCHANGED <<regFile, boldFile, FONTS_REGISTERED, canvas, args>>

generate_student_id_card_pdf ==
    /\ args.kind = "student"
    /\ Generate("generate_student_id_card_pdf",
                StudentCardPdf(args.student, args.institution, args.class_name))

generate_staff_id_card_pdf ==
    /\ args.kind = "staff"
    /\ Generate("generate_staff_id_card_pdf",
                StaffCardPdf(args.staff, args.institution, args.department))

generate_bulk_id_cards_pdf ==
    /\ args.kind = "bulk"
    /\ Generate("generate_bulk_id_cards_pdf",
                BulkCardsPdf(args.students, args.institution, args.class_name))

Students ==
    [photo : PhotoInputs, father_name : BOOLEAN, admission_no : BOOLEAN,
     guardian_phone : BOOLEAN]

\* the students of a bulk run: with and without photo, father and id
BulkStudents ==
    {st \in Students : st.photo.imageOk = (st.photo.url = "data")
                       /\ st.guardian_phone = st.admission_no}

Staff ==
    [photo : PhotoInputs, designation : BOOLEAN, department : BOOLEAN,
     phone : BOOLEAN]

Institutions == [logo : LogoInputs, address : BOOLEAN, phone : BOOLEAN]

CardArgs ==
    [kind : {"student"}, student : Students, institution : Institutions,
     class_name : BOOLEAN]
    \cup [kind : {"staff"}, staff : Staff, institution : Institutions,
          department : BOOLEAN]
    \cup [kind : {"bulk"},
          students : UNION {[1..n -> BulkStudents] : n \in 0..MaxStudents},
          institution : Institutions, class_name : BOOLEAN]

InitCards ==
    /\ InitProcess
    /\ args \in CardArgs

NextCards ==
    \/ generate_student_id_card_pdf
    \/ generate_staff_id_card_pdf
    \/ generate_bulk_id_cards_pdf

SpecCards == InitCards /\ [][NextCards]_vars

\* a page that is not blank and holds only drawings of one side of one card
PageOf(page, who, side) ==
    /\ page # <<>>
    /\ \A k \in 1..Len(page) : page[k].who = who /\ page[k].side = side

\* C9: a single card is exactly the two pages front, back; a bulk run over
\* n >= 1 students is exactly the 2n pages front(1), back(1), ..., front(n),
\* back(n); no page is blank or mixes sides or students.
C9_TwoPagesPerCard ==
    /\ (call \in {"generate_student_id_card_pdf", "generate_staff_id_card_pdf"})
          => /\ Len(ret.pages) = 2
             /\ PageOf(ret.pages[1], 1, "front")
             /\ PageOf(ret.pages[2], 1, "back")
    /\ (call = "generate_bulk_id_cards_pdf" /\ Len(args.students) >= 1)
          => /\ Len(ret.pages) = 2 * Len(args.students)
             /\ \A k \in 1..Len(args.students) :
                   /\ PageOf(ret.pages[2 * k - 1], k, "front")
                   /\ PageOf(ret.pages[2 * k], k, "back")

\* C9 witness: a bulk run over two students returned four pages.
C9_Witness ==
    /\ call = "generate_bulk_id_cards_pdf"
    /\ Len(args.students) = 2
    /\ Len(ret.pages) = 4

\* the detail rows drawn on a page, in drawing order
DetailLabels == <<"father", "class", "id", "phone">>
IsDetailRow(op) == \E r \in 1..Len(DetailLabels) : op.what = DetailLabels[r]
Rank(op) == CHOOSE r \in 1..Len(DetailLabels) : op.what = DetailLabels[r]
RowsOf(page) == SelectSeq(page, IsDetailRow)
NameY2(page) == (CHOOSE k \in 1..Len(page) : page[k].what = "name")

\* C17: on every student card front the present detail fields are drawn in
\* the order father, class, id, phone on consecutive rows 4 mm apart starting
\* 5 mm below the name, and every detail row lies strictly above the
\* signature line (18 mm) and the footer band (top at 8 mm).  (y2 is the
\* doubled y in mm.)
C17_DetailRowsClear ==
    (call \in {"generate_student_id_card_pdf", "generate_bulk_id_cards_pdf"}) =>
        \A p \in 1..Len(ret.pages) :
            (ret.pages[p] # <<>> /\ ret.pages[p][1].side = "front") =>
                LET page == ret.pages[p]
                    rows == RowsOf(page)
                    name_y2 == page[NameY2(page)].y2
                IN /\ \A k \in 1..Len(rows) :
                        /\ rows[k].y2 = name_y2 - 2 * 5 - (k - 1) * 2 * 4
                        /\ rows[k].y2 > 2 * 18
                        /\ rows[k].y2 > 2 * 8
                   /\ \A k \in 1..(Len(rows) - 1) :
                        Rank(rows[k]) < Rank(rows[k + 1])

\* C17 without the clearance part: order and spacing of the rows alone
C17_RowsOrderAndSpacing ==
    (call \in {"generate_student_id_card_pdf", "generate_bulk_id_cards_pdf"}) =>
        \A p \in 1..Len(ret.pages) :
            (ret.pages[p] # <<>> /\ ret.pages[p][1].side = "front") =>
                LET page == ret.pages[p]
                    rows == RowsOf(page)
                    name_y2 == page[NameY2(page)].y2
                IN /\ \A k \in 1..Len(rows) :
                        rows[k].y2 = name_y2 - 2 * 5 - (k - 1) * 2 * 4
                   /\ \A k \in 1..(Len(rows) - 1) :
                        Rank(rows[k]) < Rank(rows[k + 1])

\* ======================================================== claims: canvas

DrawStringCall == call \in {"draw_text", "draw_centered_text"}
CanvasTextCall ==
    call \in {"draw_text", "draw_centered_text", "draw_bn_text",
              "draw_bn_multiline"}
Blank(text) == \A i \in 1..Len(text) : text[i] = " "

\* C2: for an empty or whitespace-only text every text operation is a no-op:
\* the rasterizer returns a zero-size result and allocates no bitmap, the
\* canvas functions issue no draw call and leave font and fill unchanged.
C2_EmptyIsNoOp ==
    [][ Blank(args.text) =>
          /\ (TextCall' \/ ParagraphCall') =>
                /\ Returned'
                /\ ret'.img.width = 0 /\ ret'.img.height = 0
                /\ ~ret'.img.allocated
          /\ CanvasTextCall' => (ret'.drawn = <<>> /\ canvas' = canvas) ]_vars

\* the face the three-step chain selects among the font files
ChainFile(bold) ==
    IF bold /\ boldFile = "ok" THEN "bold"
    ELSE IF regFile = "ok" THEN "regular" ELSE "builtin"

\* the face the three-step chain selects among the registered PDF fonts
ChainRegistered(bold) ==
    IF bold /\ "NotoSansBengali-Bold" \in registry THEN "NotoSansBengali-Bold"
    ELSE IF ~bold /\ "NotoSansBengali" \in registry THEN "NotoSansBengali"
    ELSE IF "NotoSansBengali" \in registry THEN "NotoSansBengali"
    ELSE IF bold THEN "Helvetica-Bold" ELSE "Helvetica"

\* C4: every text path resolves its font by the chain requested weight ->
\* regular weight -> built-in face, and never raises.
C4_FontChain ==
    /\ (TextCall \/ ParagraphCall) =>
          (Returned /\ ret.font = ChainFile(args.bold))
    /\ (DrawStringCall /\ ret.drawn # <<>>) =>
          ret.drawn[1].font = ChainRegistered(args.bold)

\* C7: draw_text with centering and a width W >= w draws at
\* x = anchor + (W - w) / 2, w being the width of the string drawn; without
\* centering or without a width it draws at the anchor; draw_centered_text
\* draws at x = (CARD_WIDTH - w) / 2.  (x2 is the doubled x.)
C7_Centering ==
    (DrawStringCall /\ ret.drawn # <<>>) =>
        LET d == ret.drawn[1]
            w == StringWidth(d.text, d.font, args.size)
        IN /\ d.text = Truncate(strip(args.text), args.max_chars)
           /\ call = "draw_centered_text" => d.x2 = CARD_WIDTH - w
           /\ (call = "draw_text" /\ args.centered /\ args.width # None
                 /\ args.width[1] >= w)
                 => d.x2 = 2 * args.x + (args.width[1] - w)
           /\ (call = "draw_text" /\ (~args.centered \/ args.width = None))
                 => d.x2 = 2 * args.x

\* C7 witness: draw_text centred a truncated string inside a wider width.
C7_Witness ==
    /\ call = "draw_text" /\ ret.drawn # <<>>
    /\ args.centered /\ args.width = Some(20)
    /\ Len(strip(args.text)) > 1 /\ args.max_chars = Some(1)
    /\ ret.drawn[1].text = <<Ellipsis>>
    /\ ret.drawn[1].x2 > 2 * args.x

\* C12: truncate_text(text, max_length) returns at most max_length
\* characters: the text unchanged when len(text) <= max_length, otherwise a
\* truncated form ending in the ellipsis character; falsy text returns "".
C12_TruncateBound ==
    call = "truncate_text" =>
        /\ Len(ret.value) <= MaxLength
        /\ Len(args.text) <= MaxLength => ret.value = args.text
        /\ Len(args.text) > MaxLength =>
              (ret.value # <<>> /\ ret.value[Len(ret.value)] = Ellipsis)
        /\ args.text = <<>> => ret.value = <<>>

\* C15: with max_chars = m >= 1 the string draw_text / draw_centered_text
\* draws has at most m characters: the stripped text unchanged when its
\* length is <= m, otherwise its first m - 1 characters followed by one
\* ellipsis character (length exactly m).
C15_DrawnAtMostMaxChars ==
    (DrawStringCall /\ ret.drawn # <<>> /\ args.max_chars # None
        /\ args.max_chars[1] >= 1) =>
        LET m == args.max_chars[1]
            t == strip(args.text)
            d == ret.drawn[1].text
        IN /\ Len(d) <= m
           /\ Len(t) <= m => d = t
           /\ Len(t) > m =>
                /\ Len(d) = m
                /\ d[m] = Ellipsis
                /\ \A i \in 1..(m - 1) : d[i] = t[i]

\* C15 witness: a three-character stripped text drawn with max_chars = 2 as
\* its first character and the ellipsis.
C15_Witness ==
    /\ DrawStringCall /\ ret.drawn # <<>>
    /\ args.text = LongText /\ args.max_chars = Some(2)
    /\ ret.drawn[1].text = <<"a", Ellipsis>>

\* C8: registration is load-once: no font name is handed to the registry
\* more than once, a successful registration never reverts and makes every
\* later call a no-op, and a failed call leaves 'not registered'.
C8_LoadOnce ==
    [][ /\ \A n \in DOMAIN handed : handed'[n] <= 1
        /\ FONTS_REGISTERED => FONTS_REGISTERED'
        /\ (FONTS_REGISTERED /\ call' \in {"register_bengali_fonts",
                                           "draw_bn_text", "draw_bn_multiline"})
              => (registry' = registry /\ handed' = handed)
        /\ (call' = "register_fonts"
              /\ {"NotoSansBengali", "NotoSansBengali-Bold"} \subseteq registry)
              => (registry' = registry /\ handed' = handed)
        /\ (call' = "register_bengali_fonts" /\ ret'.raised # "none")
              => ~FONTS_REGISTERED' ]_vars
====
